---- MODULE Spec2Model ----
(***************************************************************************)
(* A model of gtfo/cli.py: the fuzzy matcher, the record renderer          *)
(* (display_binary), the command dispatcher (run) and the interactive      *)
(* read-eval loop (interactive_mode).                                      *)
(*                                                                         *)
(* Text is a sequence of code points, so that lower(), upper(), strip()    *)
(* and the ordering of names are computed and not assumed.                 *)
(***************************************************************************)
EXTENDS Integers, Sequences, FiniteSets, TLC

VARIABLES pc, args, store, env, out, calls, opened, acts, last, nprompts, fz, disp

vars == <<pc, args, store, env, out, calls, opened, acts, last, nprompts, fz, disp>>

(***************************************************************************)
(* Bounds of the model                                                     *)
(***************************************************************************)
MaxLen == 1         \* longest candidate over Alphabet drawn for fuzzy_match
MaxChoices == 2     \* most candidates drawn for fuzzy_match
MaxCats == 2        \* most categories of a drawn record
MaxEntries == 2     \* most technique entries of a category of a drawn record
MaxInputs == 2      \* most prompts answered in one interactive session

\* Python's None (absent argument); no text has a negative code point.
None == <<-1>>

(***************************************************************************)
(* Text                                                                    *)
(***************************************************************************)
\* str.lower() on one code point (ASCII letters)
LowerChar(c) == IF c >= 65 /\ c <= 90 THEN c + 32 ELSE c

\* str.upper() on one code point (ASCII letters)
UpperChar(c) == IF c >= 97 /\ c <= 122 THEN c - 32 ELSE c

lower(s) == [i \in 1..Len(s) |-> LowerChar(s[i])]

upper(s) == [i \in 1..Len(s) |-> UpperChar(s[i])]

\* whitespace as str.strip() sees it in the modelled alphabet: space, \t, \n
IsSpace(c) == c \in {32, 9, 10}

\* str.strip(): drop leading and trailing whitespace
strip(s) ==
    LET idx == {i \in 1..Len(s) : ~IsSpace(s[i])}
    IN  IF idx = {} THEN <<>>
        ELSE LET lo == CHOOSE i \in idx : \A j \in idx : i <= j
                 hi == CHOOSE i \in idx : \A j \in idx : i >= j
             IN  SubSeq(s, lo, hi)

\* `x in y` for str: x occurs as a contiguous substring of y
IsSubstring(x, y) ==
    \E i \in 0..(Len(y) - Len(x)) : \A d \in 1..Len(x) : y[i + d] = x[d]

\* Python's str `<`: lexicographic by code point, a proper prefix is smaller
RECURSIVE StrLess(_, _)
StrLess(x, y) ==
    IF y = <<>> THEN FALSE
    ELSE IF x = <<>> THEN TRUE
    ELSE IF x[1] # y[1] THEN x[1] < y[1]
    ELSE StrLess(Tail(x), Tail(y))

(***************************************************************************)
(* Scores are rationals <<numerator, denominator>>, denominator > 0.       *)
(* For the sizes drawn here the floating point values Python compares are  *)
(* equal exactly when the rationals are.                                   *)
(***************************************************************************)
RLess(x, y) == x[1] * y[2] < y[1] * x[2]
RLeq(x, y) == x[1] * y[2] <= y[1] * x[2]
REq(x, y) == x[1] * y[2] = y[1] * x[2]

DefaultThreshold == <<2, 5>>      \* threshold=0.4
ExactScore == <<1, 1>>            \* 1.0
SubstringScore == <<9, 10>>       \* 0.9

(***************************************************************************)
(* difflib.SequenceMatcher(None, a, b).ratio()                             *)
(* Positions are 1-based, ranges half open [lo, hi).                       *)
(***************************************************************************)
\* all common blocks a[i..i+k-1] = b[j..j+k-1] inside the two ranges
CommonBlocks(a, b, alo, ahi, blo, bhi) ==
    {t \in (alo..(ahi - 1)) \X (blo..(bhi - 1)) \X (1..(ahi - alo)) :
        /\ t[1] + t[3] <= ahi
        /\ t[2] + t[3] <= bhi
        /\ \A d \in 0..(t[3] - 1) : a[t[1] + d] = b[t[2] + d]}

\* find_longest_match: the longest block; of those the one starting earliest
\* in a; of those the one starting earliest in b
LongestMatch(a, b, alo, ahi, blo, bhi) ==
    LET bs == CommonBlocks(a, b, alo, ahi, blo, bhi)
    IN  CHOOSE t \in bs : \A u \in bs :
            \/ t[3] > u[3]
            \/ t[3] = u[3] /\ t[1] < u[1]
            \/ t[3] = u[3] /\ t[1] = u[1] /\ t[2] <= u[2]

\* get_matching_blocks, summed: the longest block, then recursively the
\* pieces to its left and to its right
RECURSIVE MatchCount(_, _, _, _, _, _)
MatchCount(a, b, alo, ahi, blo, bhi) ==
    IF CommonBlocks(a, b, alo, ahi, blo, bhi) = {} THEN 0
    ELSE LET m == LongestMatch(a, b, alo, ahi, blo, bhi)
             i == m[1]
             j == m[2]
             k == m[3]
         IN  k
             + (IF alo < i /\ blo < j THEN MatchCount(a, b, alo, i, blo, j) ELSE 0)
             + (IF i + k < ahi /\ j + k < bhi
                THEN MatchCount(a, b, i + k, ahi, j + k, bhi) ELSE 0)

\* ratio(): 2.0 * matches / (len(a) + len(b)), and 1.0 for two empty strings
Ratio(a, b) ==
    IF Len(a) + Len(b) = 0 THEN <<1, 1>>
    ELSE <<2 * MatchCount(a, b, 1, Len(a) + 1, 1, Len(b) + 1), Len(a) + Len(b)>>

(***************************************************************************)
(* fuzzy_match(query, choices, threshold=0.4)                              *)
(***************************************************************************)
\* the score of one choice (the if/else inside the loop)
FuzzyScore(query_lower, choice_lower) ==
    IF IsSubstring(query_lower, choice_lower)
    THEN (IF query_lower = choice_lower THEN ExactScore ELSE SubstringScore)
    ELSE Ratio(query_lower, choice_lower)

\* variant: `if score > threshold`
PassesThreshold_Strict(score, threshold) == RLess(threshold, score)

\* `if score >= threshold`
PassesThreshold(score, threshold) == RLeq(threshold, score)

\* the loop: results.append((choice, score)) for every choice that passes
RECURSIVE FuzzyResults(_, _, _)
FuzzyResults(query, choices, threshold) ==
    IF choices = <<>> THEN <<>>
    ELSE LET choice == Head(choices)
             score == FuzzyScore(lower(query), lower(choice))
             rest == FuzzyResults(query, Tail(choices), threshold)
         IN  IF PassesThreshold(score, threshold)
             THEN <<<<choice, score>>>> \o rest
             ELSE rest

\* variant: the sort key -x[1] alone, ties left in the order supplied
KeyLess_ScoreOnly(x, y) == RLess(y[2], x[2])

\* the sort key (-x[1], x[0]): x sorts strictly before y
KeyLess(x, y) ==
    \/ RLess(y[2], x[2])
    \/ REq(x[2], y[2]) /\ StrLess(x[1], y[1])

\* sorted() is stable: x goes after every element that does not sort after it
RECURSIVE InsertSorted(_, _)
InsertSorted(x, s) ==
    IF s = <<>> THEN <<x>>
    ELSE IF KeyLess(x, Head(s)) THEN <<x>> \o s
    ELSE <<Head(s)>> \o InsertSorted(x, Tail(s))

RECURSIVE SortedResults(_)
SortedResults(rs) ==
    IF rs = <<>> THEN <<>>
    ELSE InsertSorted(rs[Len(rs)], SortedResults(SubSeq(rs, 1, Len(rs) - 1)))

fuzzy_match(query, choices, threshold) ==
    LET rs == SortedResults(FuzzyResults(query, choices, threshold))
    IN  [i \in 1..Len(rs) |-> rs[i][1]]

(***************************************************************************)
(* Constants of the program                                                *)
(***************************************************************************)
EXPLOIT_TYPES == <<
    <<115,104,101,108,108>>,                          \* shell
    <<99,111,109,109,97,110,100>>,                    \* command
    <<114,101,118,101,114,115,101,45,115,104,101,108,108>>,   \* reverse-shell
    <<110,111,110,45,105,110,116,101,114,97,99,116,105,118,101,45,
      114,101,118,101,114,115,101,45,115,104,101,108,108>>,   \* non-interactive-reverse-shell
    <<98,105,110,100,45,115,104,101,108,108>>,        \* bind-shell
    <<110,111,110,45,105,110,116,101,114,97,99,116,105,118,101,45,
      98,105,110,100,45,115,104,101,108,108>>,        \* non-interactive-bind-shell
    <<102,105,108,101,45,117,112,108,111,97,100>>,    \* file-upload
    <<102,105,108,101,45,100,111,119,110,108,111,97,100>>,    \* file-download
    <<102,105,108,101,45,119,114,105,116,101>>,       \* file-write
    <<102,105,108,101,45,114,101,97,100>>,            \* file-read
    <<108,105,98,114,97,114,121,45,108,111,97,100>>,  \* library-load
    <<115,117,105,100>>,                              \* suid
    <<115,117,100,111>>,                              \* sudo
    <<99,97,112,97,98,105,108,105,116,105,101,115>>,  \* capabilities
    <<108,105,109,105,116,101,100,45,115,117,105,100>> >>     \* limited-suid

\* `x in EXPLOIT_TYPES`
IsExploitType(x) == \E i \in 1..Len(EXPLOIT_TYPES) : EXPLOIT_TYPES[i] = x

\* Python truthiness of an optional string: None and '' are false
Truthy(x) == x # None /\ x # <<>>

(***************************************************************************)
(* Output: every print() is one event [k, s, t]; k names the template and  *)
(* the message, s and t carry the text substituted into it.                *)
(***************************************************************************)
Ev2(k, s, t) == [k |-> k, s |-> s, t |-> t]
Ev(k, s) == Ev2(k, s, <<>>)

(***************************************************************************)
(* Record store: a function from binary name to its parsed JSON record     *)
(*   [description : text or None,                                          *)
(*    functions   : sequence of [cat, entries], in file order,             *)
(*    entries     : sequence of [description : text or None, code : text]] *)
(***************************************************************************)
\* a sequence holding the elements of a set of names in ascending order
RECURSIVE SortedNames(_)
SortedNames(S) ==
    IF S = {} THEN <<>>
    ELSE LET m == CHOOSE x \in S : \A y \in S : x = y \/ StrLess(x, y)
         IN  <<m>> \o SortedNames(S \ {m})

\* get_all_binaries(): sorted stems of data/*.json
get_all_binaries(st) == SortedNames(DOMAIN st)

\* `exploit_type in data.get('functions', {})`
HasType(rec, exploit_type) ==
    \E i \in 1..Len(rec.functions) : rec.functions[i].cat = exploit_type

\* get_binaries_with_type(): opens and parses every record file
get_binaries_with_type(st, exploit_type) ==
    [opened |-> DOMAIN st,
     names |-> SortedNames({b \in DOMAIN st : HasType(st[b], exploit_type)})]

(***************************************************************************)
(* display_binary(binary, filter_type=None)                                *)
(* hl is the set of code texts on which highlight() raises.                *)
(***************************************************************************)
\* variant: the divider follows every entry
DividerAfter_Always(idx, n) == TRUE

\* whether the divider follows entry idx (1-based) of n entries
DividerAfter(idx, n) == idx # n

\* the inner loop over the entries of one category, from entry idx on
RECURSIVE RenderEntries(_, _, _)
RenderEntries(entries, idx, hl) ==
    IF idx > Len(entries) THEN [out |-> <<>>, ok |-> TRUE]
    ELSE LET code == entries[idx]
             pre == IF code.description # None
                    THEN <<Ev("entry_description", code.description)>> ELSE <<>>
         IN  IF code.code \in hl
             THEN [out |-> pre, ok |-> FALSE]
             ELSE LET rest == RenderEntries(entries, idx + 1, hl)
                      this == pre \o <<Ev("highlighted", code.code)>>
                                  \o (IF DividerAfter(idx, Len(entries))
                                      THEN <<Ev("divider", <<>>)>> ELSE <<>>)
                  IN  [out |-> this \o rest.out, ok |-> rest.ok]

\* the outer loop over the shown categories, from category i on
RECURSIVE RenderVectors(_, _, _)
RenderVectors(vectors, i, hl) ==
    IF i > Len(vectors) THEN [out |-> <<>>, ok |-> TRUE]
    ELSE LET head == <<Ev("title", upper(vectors[i].cat))>>
             body == RenderEntries(vectors[i].entries, 1, hl)
         IN  IF ~body.ok
             THEN [out |-> head \o body.out, ok |-> FALSE]
             ELSE LET rest == RenderVectors(vectors, i + 1, hl)
                  IN  [out |-> head \o body.out \o rest.out, ok |-> rest.ok]

\* {k: v for k, v in vectors.items() if k == filter_type}
RECURSIVE FilterVectors(_, _)
FilterVectors(vectors, filter_type) ==
    IF vectors = <<>> THEN <<>>
    ELSE (IF Head(vectors).cat = filter_type THEN <<Head(vectors)>> ELSE <<>>)
         \o FilterVectors(Tail(vectors), filter_type)

\* variant: an empty selection is rendered like any other
FilterFails_Never(filter_type, vectors) == FALSE

\* `if filter_type:` ... `if not vectors:`
FilterFails(filter_type, vectors) == Truthy(filter_type) /\ vectors = <<>>

\* ret is "True", "False", or "raised" when an exception leaves the function
display_binary(st, binary, filter_type, hl) ==
    IF binary \notin DOMAIN st
    THEN [out |-> <<Ev("fail_notfound", binary)>>, ret |-> "False"]
    ELSE LET json_data == st[binary]
             top == <<Ev("info_supplied", binary)>>
                    \o (IF json_data.description # None
                        THEN <<Ev("description", json_data.description)>> ELSE <<>>)
             vectors == IF Truthy(filter_type)
                        THEN FilterVectors(json_data.functions, filter_type)
                        ELSE json_data.functions
         IN  IF FilterFails(filter_type, vectors)
             THEN [out |-> top \o <<Ev2("fail_notype", filter_type, binary)>>,
                   ret |-> "False"]
             ELSE LET body == RenderVectors(vectors, 1, hl)
                  IN  IF body.ok
                      THEN [out |-> top \o body.out \o <<Ev("goodbye", <<>>)>>,
                            ret |-> "True"]
                      ELSE [out |-> top \o body.out, ret |-> "raised"]

(***************************************************************************)
(* print_binary_list(binaries, columns=4)                                  *)
(***************************************************************************)
Columns == 4

\* str.ljust(width)
ljust(b, width) == b \o [i \in 1..(width - Len(b)) |-> 32]

RECURSIVE JoinJust(_, _)
JoinJust(row, width) ==
    IF row = <<>> THEN <<>> ELSE ljust(Head(row), width) \o JoinJust(Tail(row), width)

RECURSIVE PrintRows(_, _, _)
PrintRows(binaries, i, max_len) ==
    IF i > Len(binaries) THEN <<>>
    ELSE LET hi == IF i + Columns - 1 < Len(binaries) THEN i + Columns - 1
                   ELSE Len(binaries)
             row == SubSeq(binaries, i, hi)
         IN  <<Ev("row", <<32, 32>> \o JoinJust(row, max_len))>>
             \o PrintRows(binaries, i + Columns, max_len)

print_binary_list(binaries) ==
    IF binaries = <<>> THEN <<Ev("fail_nobinaries", <<>>)>>
    ELSE LET lens == {Len(binaries[i]) : i \in 1..Len(binaries)}
             longest == CHOOSE n \in lens : \A m \in lens : n >= m
         IN  PrintRows(binaries, 1, longest + 2)

(***************************************************************************)
(* interactive_mode(): one pass of the body of `while True`                *)
(***************************************************************************)
ExitKeywords == {<<101,120,105,116>>, <<113,117,105,116>>, <<113>>}   \* exit quit q

\* variant: `user_input in ('exit', 'quit', 'q')`
IsExitKeyword_CaseSensitive(user_input) == user_input \in ExitKeywords

\* `user_input.lower() in ('exit', 'quit', 'q')`
IsExitKeyword(user_input) == lower(user_input) \in ExitKeywords

\* variant: the loop breaks when display_binary reports a failure
AfterLookup_StopOnFailure(ret) ==
    IF ret = "raised" THEN "crashed" ELSE IF ret = "False" THEN "break" ELSE "prompt"

\* where the loop goes after display_binary(user_input) came back with ret
AfterLookup(ret) == IF ret = "raised" THEN "crashed" ELSE "prompt"

\* the body of the loop for one line read by prompt(); what it adds to the
\* output and to the calls of display_binary, and where control goes
LoopBody(raw, st, hl) ==
    LET user_input == strip(raw)
    IN  IF user_input = <<>>
        THEN [pc |-> "prompt", out |-> <<>>, calls |-> <<>>]
        ELSE IF IsExitKeyword(user_input)
        THEN [pc |-> "break", out |-> <<>>, calls |-> <<>>]
        ELSE LET r == display_binary(st, user_input, None, hl)
             IN  [pc |-> AfterLookup(r.ret),
                  out |-> r.out \o (IF r.ret = "raised" THEN <<>>
                                    ELSE <<Ev("blank", <<>>)>>),
                  calls |-> <<[binary |-> user_input, filter |-> None]>>]

(***************************************************************************)
(* run(binary=None)                                                        *)
(* args.prog is the parameter `binary`; the other fields are the parsed    *)
(* command line, read only when prog is None.                              *)
(***************************************************************************)
\* `args = parse_args() if binary is None else None`
Parsed(a) == a.prog = None

\* which block of run() executes
Branch(a) ==
    IF ~Parsed(a) THEN "lookup"
    ELSE IF a.interactive THEN "interactive"
    ELSE IF a.list_all THEN "list"
    ELSE IF Truthy(a.search) THEN "search"
    ELSE IF Truthy(a.exploit_type) THEN "filter"
    ELSE "lookup"

\* `if args.list_all:` block
ListBlock(st) ==
    LET binaries == get_all_binaries(st)
    IN  <<Ev("info_available", <<Len(binaries)>>), Ev("blank", <<>>)>>
        \o print_binary_list(binaries)

\* `if args.search:` block
SearchBlock(a, st) ==
    LET binaries == get_all_binaries(st)
        matches == fuzzy_match(a.search, binaries, DefaultThreshold)
    IN  IF matches # <<>>
        THEN <<Ev2("info_search", a.search, <<Len(matches)>>), Ev("blank", <<>>)>>
             \o print_binary_list(matches)
        ELSE <<Ev("fail_nomatch", a.search)>>

\* ', '.join(EXPLOIT_TYPES), from element i on
RECURSIVE JoinTypes(_)
JoinTypes(i) ==
    IF i > Len(EXPLOIT_TYPES) THEN <<>>
    ELSE IF i = Len(EXPLOIT_TYPES) THEN EXPLOIT_TYPES[i]
    ELSE EXPLOIT_TYPES[i] \o <<44, 32>> \o JoinTypes(i + 1)

\* variant: the scan runs before the type is validated
FilterBlock_ScanFirst(a, st) ==
    LET scan == get_binaries_with_type(st, a.exploit_type)
    IN  IF ~IsExploitType(a.exploit_type)
        THEN [out |-> <<Ev("fail_unknown_type", a.exploit_type),
                        Ev("info_valid_types", JoinTypes(1))>>,
              opened |-> scan.opened]
        ELSE [out |-> IF scan.names # <<>>
                      THEN <<Ev2("info_with_type", a.exploit_type, <<Len(scan.names)>>),
                             Ev("blank", <<>>)>> \o print_binary_list(scan.names)
                      ELSE <<Ev("fail_none_with_type", a.exploit_type)>>,
              opened |-> scan.opened]

\* `if args.exploit_type:` block
FilterBlock(a, st) ==
    IF ~IsExploitType(a.exploit_type)
    THEN [out |-> <<Ev("fail_unknown_type", a.exploit_type),
                    Ev("info_valid_types", JoinTypes(1))>>,
          opened |-> {}]
    ELSE LET scan == get_binaries_with_type(st, a.exploit_type)
             binaries == scan.names
         IN  [out |-> IF binaries # <<>>
                      THEN <<Ev2("info_with_type", a.exploit_type, <<Len(binaries)>>),
                             Ev("blank", <<>>)>> \o print_binary_list(binaries)
                      ELSE <<Ev("fail_none_with_type", a.exploit_type)>>,
               opened |-> scan.opened]

\* variant: no `if not binary` check before display_binary
LookupBlock_NoBinaryCheck(a, st, hl) ==
    LET binary == IF Parsed(a) THEN a.binary ELSE a.prog
        filter_type == IF Parsed(a) THEN a.exploit_type ELSE None
        r == display_binary(st, binary, filter_type, hl)
    IN  [out |-> r.out,
         calls |-> <<[binary |-> binary, filter |-> filter_type]>>,
         ret |-> r.ret]

\* the tail of run(): `binary = args.binary`, `if not binary`, display_binary
LookupBlock(a, st, hl) ==
    LET binary == IF Parsed(a) THEN a.binary ELSE a.prog
        filter_type == IF Parsed(a) THEN a.exploit_type ELSE None
    IN  IF ~Truthy(binary)
        THEN [out |-> <<Ev("fail_nobinary", <<>>)>>, calls |-> <<>>, ret |-> "none"]
        ELSE LET r == display_binary(st, binary, filter_type, hl)
             IN  [out |-> r.out,
                  calls |-> <<[binary |-> binary, filter |-> filter_type]>>,
                  ret |-> r.ret]

(***************************************************************************)
(* Inputs                                                                  *)
(***************************************************************************)
find == <<102,105,110,100>>
file == <<102,105,108,101>>
grep == <<103,114,101,112>>
findx == <<102,105,110,100,120>>
fi == <<102,105>>
fix == <<102,105,120>>
ex == <<101,120>>
zz == <<122,122>>
bogus == <<98,111,103,117,115>>
shell == EXPLOIT_TYPES[1]
file_read == EXPLOIT_TYPES[10]
suid == EXPLOIT_TYPES[12]
sudo == EXPLOIT_TYPES[13]
capabilities == EXPLOIT_TYPES[14]

doc == <<100,111,99>>          \* a description text
sh == <<115,104>>              \* a code text
id == <<105,100>>              \* another code text

Codes == {sh, id}
EntryPool == {[description |-> None, code |-> sh], [description |-> doc, code |-> id]}
CatPool == {shell, suid, sudo}

\* every category present in a record lists at least one technique
EntrySeqs == UNION {[1..n -> EntryPool] : n \in 1..MaxEntries}

\* JSON objects have distinct keys
FunctionSeqs ==
    UNION {{f \in [1..m -> [cat : CatPool, entries : EntrySeqs]] :
               \A i, j \in 1..m : i # j => f[i].cat # f[j].cat} : m \in 0..MaxCats}

Records == [description : {None, doc}, functions : FunctionSeqs]

EmptyStore == [b \in {} |-> None]

SampleStore ==
    [b \in {find, file, grep} |->
        IF b = find
        THEN [description |-> doc,
              functions |-> <<[cat |-> shell,
                               entries |-> <<[description |-> None, code |-> sh]>>],
                              [cat |-> suid,
                               entries |-> <<[description |-> doc, code |-> sh],
                                             [description |-> None, code |-> id]>>]>>]
        ELSE IF b = file
        THEN [description |-> None,
              functions |-> <<[cat |-> file_read,
                               entries |-> <<[description |-> None, code |-> id]>>]>>]
        ELSE [description |-> None,
              functions |-> <<[cat |-> suid,
                               entries |-> <<[description |-> None, code |-> id]>>]>>]]

Stores == {EmptyStore, SampleStore}

\* what run() can be given: a programmatic binary, or a parsed command line
ArgSpace ==
    [prog : {<<>>, find, findx}, interactive : {FALSE}, list_all : {FALSE},
     search : {None}, exploit_type : {None}, binary : {None}]
    \cup
    [prog : {None}, interactive : BOOLEAN, list_all : BOOLEAN,
     search : {None, <<>>, fi, zz},
     exploit_type : {None, <<>>, suid, capabilities, bogus},
     binary : {None, <<>>, find, findx}]

\* lines the user can type at the prompt
Lines == {<<>>, <<32>>, <<113>>, <<81,117,105,116>>, <<32,101,120,105,116>>,
          <<102,105,110,100,32>>, findx, <<113,113>>}

Alphabet == {65, 97, 98}       \* A a b
Strs(n) == UNION {[1..m -> Alphabet] : m \in 0..n}
Thresholds == {DefaultThreshold, SubstringScore}

\* candidates: every text over Alphabet up to MaxLen and three names;
\* queries: terms that meet the candidates on every way of scoring
Queries == {<<>>, <<97>>, <<65>>, <<98, 97>>, fi, fix, ex}
Candidates == Strs(MaxLen) \cup {find, file, grep}

Permutations3(a, b, c) ==
    {<<a, b, c>>, <<a, c, b>>, <<b, a, c>>, <<b, c, a>>, <<c, a, b>>, <<c, b, a>>}

ChoiceLists ==
    UNION {[1..m -> Candidates] : m \in 0..MaxChoices}
    \cup Permutations3(find, file, grep)

NoInput == [kind |-> "none", text |-> <<>>]
FzIdle == [query |-> <<>>, choices |-> <<>>, threshold |-> DefaultThreshold,
           result |-> <<>>, done |-> FALSE]
DispIdle == [binary |-> None, filter |-> None, ret |-> "idle"]
Healthy == [hasPT |-> TRUE, hl |-> {}]

(***************************************************************************)
(* The command: run() and the interactive session                          *)
(***************************************************************************)
\* prompt_toolkit is imported on demand and may be missing; pygments is
\* imported with the module, and its highlight() is total on text
Init ==
    /\ pc = "run"
    /\ args \in ArgSpace
    /\ store \in Stores
    /\ env \in [hasPT : BOOLEAN, hl : {{}}]
    /\ out = <<>>
    /\ calls = <<>>
    /\ opened = {}
    /\ acts = <<>>
    /\ last = NoInput
    /\ nprompts = 0
    /\ fz = FzIdle
    /\ disp = DispIdle

\* `if args.interactive:` interactive_mode() up to the first prompt
RunInteractive ==
    /\ pc = "run"
    /\ Branch(args) = "interactive"
    /\ acts' = Append(acts, "interactive")
    /\ IF env.hasPT
       THEN /\ out' = out \o <<Ev("info_interactive", <<Cardinality(DOMAIN store)>>),
                               Ev("info_hint", <<>>), Ev("blank", <<>>)>>
            /\ pc' = "prompt"
       ELSE /\ out' = out \o <<Ev("fail_prompt_toolkit", <<>>)>>
            /\ pc' = "exit1"
    /\ UNCHANGED <<args, store, env, calls, opened, last, nprompts, fz, disp>>

RunList ==
    /\ pc = "run"
    /\ Branch(args) = "list"
    /\ acts' = Append(acts, "list")
    /\ out' = out \o ListBlock(store)
    /\ pc' = "done"
    /\ UNCHANGED <<args, store, env, calls, opened, last, nprompts, fz, disp>>

RunSearch ==
    /\ pc = "run"
    /\ Branch(args) = "search"
    /\ acts' = Append(acts, "search")
    /\ out' = out \o SearchBlock(args, store)
    /\ pc' = "done"
    /\ UNCHANGED <<args, store, env, calls, opened, last, nprompts, fz, disp>>

RunFilter ==
    /\ pc = "run"
    /\ Branch(args) = "filter"
    /\ LET r == FilterBlock(args, store)
       IN  /\ out' = out \o r.out
           /\ opened' = opened \cup r.opened
    /\ acts' = Append(acts, "filter")
    /\ pc' = "done"
    /\ UNCHANGED <<args, store, env, calls, last, nprompts, fz, disp>>

RunLookup ==
    /\ pc = "run"
    /\ Branch(args) = "lookup"
    /\ LET r == LookupBlock(args, store, env.hl)
       IN  /\ out' = out \o r.out
           /\ calls' = calls \o r.calls
           /\ acts' = IF r.calls # <<>> THEN Append(acts, "lookup") ELSE acts
           /\ pc' = IF r.ret = "raised" THEN "crashed" ELSE "done"
    /\ UNCHANGED <<args, store, env, opened, last, nprompts, fz, disp>>

\* prompt() returns a line
PromptLine ==
    /\ pc = "prompt"
    /\ nprompts < MaxInputs
    /\ \E raw \in Lines :
        LET r == LoopBody(raw, store, env.hl)
        IN  /\ last' = [kind |-> "line", text |-> raw]
            /\ calls' = calls \o r.calls
            /\ IF r.pc = "break"
               THEN /\ out' = out \o r.out \o <<Ev("goodbye", <<>>)>>
                    /\ pc' = "done"
               ELSE /\ out' = out \o r.out
                    /\ pc' = r.pc
    /\ nprompts' = nprompts + 1
    /\ UNCHANGED <<args, store, env, opened, acts, fz, disp>>

\* prompt() raises KeyboardInterrupt
PromptInterrupt ==
    /\ pc = "prompt"
    /\ last' = [kind |-> "interrupt", text |-> <<>>]
    /\ out' = out \o <<Ev("goodbye", <<>>)>>
    /\ pc' = "done"
    /\ UNCHANGED <<args, store, env, calls, opened, acts, nprompts, fz, disp>>

\* prompt() raises EOFError
PromptEOF ==
    /\ pc = "prompt"
    /\ last' = [kind |-> "eof", text |-> <<>>]
    /\ out' = out \o <<Ev("goodbye", <<>>)>>
    /\ pc' = "done"
    /\ UNCHANGED <<args, store, env, calls, opened, acts, nprompts, fz, disp>>

Next ==
    \/ RunInteractive
    \/ RunList
    \/ RunSearch
    \/ RunFilter
    \/ RunLookup
    \/ PromptLine
    \/ PromptInterrupt
    \/ PromptEOF

Spec == Init /\ [][Next]_vars

(***************************************************************************)
(* fuzzy_match on its own, over drawn inputs                               *)
(***************************************************************************)
InitFuzzy ==
    /\ pc = "fuzzy"
    /\ fz \in [query : Queries, choices : ChoiceLists,
               threshold : Thresholds, result : {<<>>}, done : {FALSE}]
    /\ args = [prog |-> None, interactive |-> FALSE, list_all |-> FALSE,
               search |-> None, exploit_type |-> None, binary |-> None]
    /\ store = EmptyStore
    /\ env = Healthy
    /\ out = <<>>
    /\ calls = <<>>
    /\ opened = {}
    /\ acts = <<>>
    /\ last = NoInput
    /\ nprompts = 0
    /\ disp = DispIdle

FuzzyCall ==
    /\ pc = "fuzzy"
    /\ ~fz.done
    /\ fz' = [fz EXCEPT !.result = fuzzy_match(fz.query, fz.choices, fz.threshold),
                        !.done = TRUE]
    /\ UNCHANGED <<pc, args, store, env, out, calls, opened, acts, last, nprompts, disp>>

NextFuzzy == FuzzyCall

SpecFuzzy == InitFuzzy /\ [][NextFuzzy]_vars

(***************************************************************************)
(* display_binary on its own, over drawn records and filters               *)
(***************************************************************************)
InitDisplayWith(hls) ==
    /\ pc = "display"
    /\ store \in {[b \in {find} |-> rec] : rec \in Records}
    /\ disp \in [binary : {find, findx},
                 filter : {None, <<>>, shell, suid, bogus},
                 ret : {"pending"}]
    /\ env \in [hasPT : {TRUE}, hl : hls]
    /\ args = [prog |-> None, interactive |-> FALSE, list_all |-> FALSE,
               search |-> None, exploit_type |-> None, binary |-> None]
    /\ out = <<>>
    /\ calls = <<>>
    /\ opened = {}
    /\ acts = <<>>
    /\ last = NoInput
    /\ nprompts = 0
    /\ fz = FzIdle

DisplayCall ==
    /\ pc = "display"
    /\ disp.ret = "pending"
    /\ LET r == display_binary(store, disp.binary, disp.filter, env.hl)
       IN  /\ out' = out \o r.out
           /\ disp' = [disp EXCEPT !.ret = r.ret]
    /\ calls' = Append(calls, [binary |-> disp.binary, filter |-> disp.filter])
    /\ UNCHANGED <<pc, args, store, env, opened, acts, last, nprompts, fz>>

NextDisplay == DisplayCall

\* highlight() is total, as Pygments is on text
InitDisplay == InitDisplayWith({{}})

SpecDisplay == InitDisplay /\ [][NextDisplay]_vars

\* highlight() may raise on some code texts
InitDegraded == InitDisplayWith(SUBSET Codes)

SpecDegraded == InitDegraded /\ [][NextDisplay]_vars

(***************************************************************************)
(* Properties of run() and of the interactive session (Spec)               *)
(***************************************************************************)
\* run() has returned, or handed over to the interactive session
Dispatched == pc # "run" /\ pc # "fuzzy" /\ pc # "display"

\* the kinds of the events printed so far
Kinds == {out[i].k : i \in 1..Len(out)}

\* nothing on the command line asks for anything: no flag, no term, no
\* type and no binary (an empty text counts as not given)
NothingAsked ==
    IF args.prog # None THEN args.prog = <<>>
    ELSE /\ ~args.interactive
         /\ ~args.list_all
         /\ args.search \in {None, <<>>}
         /\ args.exploit_type \in {None, <<>>}
         /\ args.binary \in {None, <<>>}

\* C1: when the command line gives a binary that has a record and a category
\* filter from EXPLOIT_TYPES (and asks for nothing else), run() calls
\* display_binary once, with that binary and that filter.
C1_FilteredLookup ==
    (/\ pc = "done"
     /\ args.prog = None
     /\ ~args.interactive
     /\ ~args.list_all
     /\ args.search = None
     /\ args.binary \in DOMAIN store
     /\ IsExploitType(args.exploit_type))
    => calls = <<[binary |-> args.binary, filter |-> args.exploit_type]>>

\* C2: for every combination of inputs run() performs exactly one primary
\* action and never two; when nothing is asked for it reports "No binary
\* specified" and performs no lookup, scan or render.
C2_ExactlyOneAction ==
    Dispatched =>
        /\ Len(acts) <= 1
        /\ NothingAsked =>
              /\ acts = <<>>
              /\ out = <<Ev("fail_nobinary", <<>>)>>
              /\ calls = <<>>
              /\ opened = {}
        /\ ~NothingAsked =>
              /\ Len(acts) = 1
              /\ "fail_nobinary" \notin Kinds
              /\ acts[1] = "lookup" => opened = {} /\ Len(calls) = 1
              /\ acts[1] \in {"list", "search"} => opened = {} /\ calls = <<>>
              /\ acts[1] = "filter" => calls = <<>>
              /\ acts[1] = "interactive" => opened = {}

\* several things are asked for at once, and one action was performed
C2_Witness ==
    /\ pc = "done"
    /\ acts = <<"search">>
    /\ args.search = fi
    /\ args.exploit_type = suid
    /\ args.binary = find
    /\ Len(out) > 2

\* C3: in interactive mode, a line that is not empty, not an exit keyword
\* and names a binary without a record is answered by the failure report,
\* and the loop prompts again.
C3_FailedLookupContinues ==
    [][(/\ pc = "prompt"
        /\ nprompts' = nprompts + 1
        /\ strip(last'.text) # <<>>
        /\ lower(strip(last'.text)) \notin ExitKeywords
        /\ strip(last'.text) \notin DOMAIN store)
       => /\ pc' = "prompt"
          /\ out' = out \o <<Ev("fail_notfound", strip(last'.text)), Ev("blank", <<>>)>>]_vars

\* a failed lookup has been reported and the session is prompting again
C3_Witness ==
    /\ pc = "prompt"
    /\ last = [kind |-> "line", text |-> findx]
    /\ Len(out) >= 2
    /\ out[Len(out) - 1] = Ev("fail_notfound", findx)

\* C4: the loop ends exactly on an exit keyword (trimmed, any case), an
\* interrupt or an end of input, and then prints the closing message; every
\* other non-empty line is one display_binary call of the trimmed line with
\* no filter and then another prompt; an empty line is no call at all.
C4_LoopTermination ==
    [][pc = "prompt" =>
        LET u == strip(last'.text)
            stops == \/ last'.kind \in {"interrupt", "eof"}
                     \/ last'.kind = "line" /\ lower(u) \in ExitKeywords
        IN  /\ last'.kind \in {"line", "interrupt", "eof"}
            /\ stops =>
                  /\ pc' = "done"
                  /\ out' = out \o <<Ev("goodbye", <<>>)>>
                  /\ calls' = calls
            /\ ~stops /\ u = <<>> =>
                  /\ pc' = "prompt"
                  /\ out' = out
                  /\ calls' = calls
            /\ ~stops /\ u # <<>> =>
                  /\ pc' = "prompt"
                  /\ calls' = Append(calls, [binary |-> u, filter |-> None])
                  /\ Len(out') > Len(out)
                  /\ out'[Len(out')] = Ev("blank", <<>>)]_vars

\* the session ended on "Quit" after one lookup
C4_Witness ==
    /\ pc = "done"
    /\ last = [kind |-> "line", text |-> <<81,117,105,116>>]
    /\ Len(calls) = 1
    /\ out[Len(out)] = Ev("goodbye", <<>>)

\* the command line carries a filter value that is not in EXPLOIT_TYPES
InvalidTypeGiven ==
    /\ args.prog = None
    /\ args.exploit_type # None
    /\ args.exploit_type # <<>>
    /\ ~IsExploitType(args.exploit_type)

\* the rejection: the failure naming the value, then the list of valid values
Rejection ==
    /\ Len(out) = 2
    /\ out[1] = Ev("fail_unknown_type", args.exploit_type)
    /\ out[2].k = "info_valid_types"
    /\ \A i \in 1..Len(EXPLOIT_TYPES) : IsSubstring(EXPLOIT_TYPES[i], out[2].s)

\* C5 as stated: a filter value outside EXPLOIT_TYPES is always rejected
\* with the failure and the valid values, and no record file is opened.
C5_AlwaysRejected ==
    (pc = "done" /\ InvalidTypeGiven) => (Rejection /\ opened = {})

\* C5 amended: no record file is ever opened for a filter value outside
\* EXPLOIT_TYPES; and when no interactive flag, list flag or search term
\* takes precedence, the value is rejected with the failure and the list of
\* the valid values.
C5_RejectedBeforeScan ==
    (Dispatched /\ InvalidTypeGiven) =>
        /\ opened = {}
        /\ (~args.interactive /\ ~args.list_all /\ args.search \in {None, <<>>})
              => (pc = "done" /\ Rejection)

\* an invalid type was rejected over a store that has records to scan
C5_Witness ==
    /\ pc = "done"
    /\ args.exploit_type = bogus
    /\ acts = <<"filter">>
    /\ store = SampleStore
    /\ Rejection

(***************************************************************************)
(* Properties of fuzzy_match (SpecFuzzy)                                   *)
(***************************************************************************)
\* the score as the specification words it
StatedScore(query, choice) ==
    IF lower(choice) = lower(query) THEN <<1, 1>>
    ELSE IF IsSubstring(lower(query), lower(choice)) THEN <<9, 10>>
    ELSE Ratio(lower(query), lower(choice))

\* how many times x occurs in the sequence s
Occurrences(x, s) == Cardinality({i \in 1..Len(s) : s[i] = x})

\* C6: fuzzy_match returns exactly the candidates whose score (1.0 for a
\* case-insensitive equal, 0.9 for another substring match, else the ratio,
\* which lies in [0,1]) is at least the threshold; fuzzy_match(X, [X]) with
\* the default threshold returns X.
C6_ThresholdAndScore ==
    fz.done =>
        LET kept == SelectSeq(fz.choices,
                        LAMBDA c : RLeq(fz.threshold, StatedScore(fz.query, c)))
        IN  /\ \A i \in 1..Len(fz.choices) :
                  /\ Occurrences(fz.choices[i], fz.result)
                        = Occurrences(fz.choices[i], kept)
                  /\ LET r == Ratio(lower(fz.query), lower(fz.choices[i]))
                     IN  0 <= r[1] /\ r[1] <= r[2]
            /\ Len(fz.result) = Len(kept)
            /\ (fz.choices = <<fz.query>> /\ fz.threshold = DefaultThreshold)
                  => fz.result = <<fz.query>>

\* one candidate was kept on its similarity ratio alone, another was dropped
C6_Witness ==
    /\ fz.done
    /\ Len(fz.choices) = 2
    /\ Len(fz.result) = 1
    /\ ~IsSubstring(lower(fz.query), lower(fz.result[1]))
    /\ Ratio(lower(fz.query), lower(fz.result[1]))[1] > 0

\* the candidates in a different order
Reordered(choices, p) == [i \in 1..Len(choices) |-> choices[p[i]]]

\* C7: the result is in descending order of score, equal scores in ascending
\* order of name, and does not depend on the order in which the candidates
\* were supplied; `fi` over find, file, grep gives file, find.
C7_OrderDeterministic ==
    fz.done =>
        /\ \A i \in 1..(Len(fz.result) - 1) :
              LET x == StatedScore(fz.query, fz.result[i])
                  y == StatedScore(fz.query, fz.result[i + 1])
              IN  \/ RLess(y, x)
                  \/ REq(x, y) /\ ~StrLess(fz.result[i + 1], fz.result[i])
        /\ \A p \in Permutations(1..Len(fz.choices)) :
              fuzzy_match(fz.query, Reordered(fz.choices, p), fz.threshold) = fz.result
        /\ (/\ fz.query = fi
            /\ fz.choices \in Permutations3(find, file, grep)
            /\ fz.threshold = DefaultThreshold)
              => fz.result = <<file, find>>

\* two candidates tie on 0.9 and were supplied in descending order of name
C7_Witness ==
    /\ fz.done
    /\ fz.query = fi
    /\ fz.choices = <<grep, find, file>>
    /\ fz.result = <<file, find>>

(***************************************************************************)
(* Properties of display_binary (SpecDisplay, SpecDegraded)                *)
(***************************************************************************)
Returned == pc = "display" /\ disp.ret # "pending"

Found == disp.binary \in DOMAIN store

\* a filter was given (None and the empty text mean no filter)
FilterGiven == disp.filter # None /\ disp.filter # <<>>

\* the categories of the record that are to be shown, in stored order
Shown ==
    IF FilterGiven
    THEN SelectSeq(store[disp.binary].functions, LAMBDA v : v.cat = disp.filter)
    ELSE store[disp.binary].functions

\* the events of kind k, in the order printed
OfKind(s, k) == SelectSeq(s, LAMBDA e : e.k = k)

\* the position in the output of the i-th title
TitleAt(i) ==
    CHOOSE p \in 1..Len(out) :
        /\ out[p].k = "title"
        /\ Cardinality({q \in 1..(p - 1) : out[q].k = "title"}) = i - 1

\* what is printed for the i-th shown category, after its title
Segment(i) ==
    SubSeq(out, TitleAt(i) + 1,
           IF i < Len(Shown) THEN TitleAt(i + 1) - 1 ELSE Len(out) - 1)

\* C8: a rendering prints, per shown category in stored order, the
\* upper-cased title, then the k entries in stored order with k - 1
\* dividers, each between two consecutive entries and none after the last;
\* the description, if present, once before any technique; the closing
\* message last.
C8_RenderLayout ==
    (Returned /\ Found /\ (FilterGiven => Shown # <<>>)) =>
        /\ out[1] = Ev("info_supplied", disp.binary)
        /\ out[Len(out)] = Ev("goodbye", <<>>)
        /\ Len(OfKind(out, "goodbye")) = 1
        /\ IF store[disp.binary].description # None
           THEN /\ out[2] = Ev("description", store[disp.binary].description)
                /\ Len(OfKind(out, "description")) = 1
           ELSE OfKind(out, "description") = <<>>
        /\ OfKind(out, "title")
              = [i \in 1..Len(Shown) |-> Ev("title", upper(Shown[i].cat))]
        /\ \A i \in 1..Len(Shown) :
              LET seg == Segment(i)
                  es == Shown[i].entries
              IN  /\ OfKind(seg, "highlighted")
                        = [j \in 1..Len(es) |-> Ev("highlighted", es[j].code)]
                  /\ Len(OfKind(seg, "divider")) = Len(es) - 1
                  /\ seg[Len(seg)].k = "highlighted"
                  /\ \A x \in 1..Len(seg) :
                        seg[x].k = "divider" => seg[x - 1].k = "highlighted"

\* two categories were rendered, one of them with two entries
C8_Witness ==
    /\ Returned
    /\ disp.ret = "True"
    /\ store[find].description # None
    /\ Len(OfKind(out, "title")) = 2
    /\ Len(OfKind(out, "divider")) = 1
    /\ Len(OfKind(out, "highlighted")) = 3

\* the technique content a rendering can print, and the closing message
TechniqueKinds == {"title", "entry_description", "highlighted", "divider", "goodbye"}

HighlightFails ==
    \E i \in 1..Len(Shown) : \E j \in 1..Len(Shown[i].entries) :
        Shown[i].entries[j].code \in env.hl

\* C10: when highlighting fails, display_binary still prints the code of
\* that entry and of every later entry, and reaches the closing message.
C10_RawCodeShown ==
    (Returned /\ Found /\ (FilterGiven => Shown # <<>>) /\ HighlightFails) =>
        /\ \A i \in 1..Len(Shown) : \A j \in 1..Len(Shown[i].entries) :
              \E x \in 1..Len(out) :
                  /\ out[x].k \in {"highlighted", "raw"}
                  /\ out[x].s = Shown[i].entries[j].code
        /\ out[Len(out)] = Ev("goodbye", <<>>)

====
